---- MODULE Spec2Model ----
(***************************************************************************)
(* A model of the LRU cache of nsmithuk/lrucache: the index (a map), the   *)
(* intrusive doubly linked recency list, the reader/writer lock and the    *)
(* event channel consumed by the single processEvents goroutine.           *)
(*                                                                         *)
(* Callers run Set / Get / Delete concurrently.  Each step of a caller is  *)
(* one action; a caller's position is pc[p].  The processor handles one    *)
(* event per action, except MakeSpaceFor: the test of its loop and the     *)
(* body of its loop are separate actions, so that a loop that never ends   *)
(* is a behaviour of the model.                                            *)
(***************************************************************************)
EXTENDS Integers, Sequences, FiniteSets, TLC

\* ------------------------------------------------------------------ bounds
NumCallers == 2
MaxKey == 2
MaxValue == 2
MaxCost == 3
MaxTime == 2
MaxNodes == 5
MaxCapacity == 2
MaxBuffer == 1

\* uint64 arithmetic wraps; the model keeps the wrap-around on a word that is
\* narrower than 64 bits but far wider than any value the bounds produce.
UintMod == 65536

\* zero values of K and V (lru.emptyK, lru.emptyV) and of time.Time
emptyK == 0
emptyV == 0
ZeroTime == 0

Callers == 1..NumCallers
Sweeper == NumCallers + 1
Keys == 0..MaxKey
FewKeys == 0..(MaxKey - 1)
Values == 1..MaxValue
Costs == 0..MaxCost
Expiries == ZeroTime..(MaxTime - 1)
NodeIds == 1..MaxNodes

\* pointers: nil, and the two sentinels allocated by the constructor
Nil == 0
head == -1
tail == -2
AllIds == NodeIds \cup {head, tail}

VARIABLES
  cfg,      \* capacity, buffer, purgeInterval, PurgeExpiredEventsWhenCacheIsFull
  now,      \* time.Now()
  cache,    \* lru.cache : key -> node pointer (Nil = no entry)
  size,     \* lru.size
  node,     \* the heap: pointer -> node struct
  lock,     \* lru.lock : AssertRWLock
  queue,    \* lru.events : the channel's buffer
  cur,      \* the event processEvents is handling
  wgDone,   \* WaitGroups whose Done() has been called
  fault,    \* a panic that ended the program
  close,    \* lru.close (a sync.Once) and whether lru.events has been closed
  pc,       \* position of each caller
  arg,      \* arguments and locals of each caller's call
  ret,      \* the call that returned in the last step, with its result
  spc,      \* position of the purgeExpired goroutine
  epc,      \* position of the processEvents goroutine
  gone,     \* history: keys whose Delete has returned, with no Set registered since
  hist      \* history of the completed calls (recorded when cfg.track)

vars == <<cfg, now, cache, size, node, lock, queue, cur, wgDone, fault, close, pc, arg, ret, spc, epc, gone, hist>>

\* ------------------------------------------------------------------ data
ZeroNode ==
  [key |-> emptyK, value |-> emptyV, size |-> 0, expires |-> ZeroTime,
   previous |-> Nil, next |-> Nil, deleted |-> FALSE]

NoEvent == [a |-> "none", n |-> Nil, finished |-> 0, old |-> FALSE]

NoCall == [op |-> "none", k |-> emptyK, n |-> Nil]

NoReturn ==
  [p |-> 0, op |-> "none", k |-> emptyK, v |-> emptyV, cost |-> 0, expires |-> ZeroTime,
   err |-> "none", value |-> emptyV, found |-> FALSE]

ErrItemTooSmall == "ErrItemTooSmall"
ErrItemTooBig == "ErrItemTooBig"
ErrPastExpiry == "ErrPastExpiry"

EventActionAddToFront == "AddToFront"
EventActionRemove == "Remove"
EventActionMakeSpaceFor == "MakeSpaceFor"
EventActionRemoveExpired == "RemoveExpired"

\* Remove, MakeSpaceFor and RemoveExpired: the events that change the index
Structural(e) ==
  e.a \in {EventActionRemove, EventActionMakeSpaceFor, EventActionRemoveExpired}

Add(a, b) == (a + b) % UintMod
Sub(a, b) == (a - b + UintMod) % UintMod

\* the expiry test without the IsZero check
ExpiredIgnoringZero(n, t) == n.expires < t

\* !n.expires.IsZero() && n.expires.Before(t)
Expired(n, t) == n.expires # ZeroTime /\ n.expires < t

\* ------------------------------------------------------------------ list primitives
\* the removal that updates only the node before n
removeNodeFromListOneWay(nd, n) ==
  IF nd[n].next = Nil \/ nd[n].previous = Nil
  THEN nd
  ELSE [nd EXCEPT ![nd[n].previous].next = nd[n].next]

removeNodeFromList(nd, n) ==
  IF nd[n].next = Nil \/ nd[n].previous = Nil
  THEN nd
  ELSE LET p == nd[n].previous
           x == nd[n].next
           nd1 == [nd EXCEPT ![p].next = x]
       IN [nd1 EXCEPT ![x].previous = p]

addNodeBetween(nd, n, p, x) ==
  LET nd1 == [nd EXCEPT ![p].next = n]
      nd2 == [nd1 EXCEPT ![x].previous = n]
      nd3 == [nd2 EXCEPT ![n].previous = p]
  IN [nd3 EXCEPT ![n].next = x]

\* the node linked before the tail sentinel instead of after head
addNodeToTail(nd, n) ==
  LET nd1 == IF nd[n].previous # Nil THEN removeNodeFromList(nd, n) ELSE nd
  IN addNodeBetween(nd1, n, nd1[tail].previous, tail)

\* a touch that leaves an entry already linked where it is
addNodeToHeadOnlyNew(nd, n) ==
  IF nd[n].previous # Nil THEN nd ELSE addNodeBetween(nd, n, head, nd[head].next)

\* the touch that leaves the list as it is
addNodeToHeadNever(nd, n) == nd

\* the touch that links the node after head without unlinking it first
addNodeToHeadNoUnlink(nd, n) == addNodeBetween(nd, n, head, nd[head].next)

addNodeToHead(nd, n) ==
  LET nd1 == IF nd[n].previous # Nil THEN removeNodeFromList(nd, n) ELSE nd
  IN addNodeBetween(nd1, n, head, nd1[head].next)

\* the victim left linked in the list
removeNodeFromTailKeepsLink(nd) == nd

removeNodeFromTail(nd) == removeNodeFromList(nd, nd[tail].previous)

\* a removal that leaves the flag unset
flagAsDeletedNever(nd, n) == nd

flagAsDeleted(nd, n) == [nd EXCEPT ![n].deleted = TRUE]

\* ------------------------------------------------------------------ the heap
\* The nodes reached by following next from i, for at most fuel steps.
RECURSIVE Chain(_, _, _)
Chain(nd, i, fuel) ==
  IF i \notin NodeIds \/ fuel = 0 THEN <<>>
  ELSE <<i>> \o Chain(nd, nd[i].next, fuel - 1)

\* the entries of the list, from the most recently used
List(nd) == Chain(nd, nd[head].next, MaxNodes)

RECURSIVE Uniq(_, _)
Uniq(s, seen) ==
  IF s = <<>> THEN <<>>
  ELSE IF Head(s) \in seen \/ Head(s) \notin NodeIds THEN Uniq(Tail(s), seen)
  ELSE <<Head(s)>> \o Uniq(Tail(s), seen \cup {Head(s)})

\* Every pointer the program holds, in a fixed order: the list, the index, the
\* event being handled, the channel, the callers' locals.
Roots(c, nd, q, cu, a) ==
  List(nd) \o [i \in 1..(MaxKey + 1) |-> c[i - 1]] \o <<cu.n>>
    \o [i \in 1..Len(q) |-> q[i].n] \o [i \in 1..NumCallers |-> a[i].n]

IndexOf(s, x) == CHOOSE i \in 1..Len(s) : s[i] = x

\* Nodes are garbage collected and a pointer is only ever compared or followed,
\* so the heap is kept in a normal form: the nodes the program can still reach,
\* numbered in the order of Roots.  A node flagged deleted has left the list for
\* good (AddToFront checks the flag, every other list operation takes its node
\* from the index or from the list), so its dead links are cleared.
Renaming(ord) ==
  [i \in AllIds \cup {Nil} |->
     IF i \in {head, tail} THEN i
     ELSE IF \E j \in 1..Len(ord) : ord[j] = i THEN IndexOf(ord, i)
     ELSE Nil]

Moved(x, r) ==
  IF x.deleted
  THEN [x EXCEPT !.previous = Nil, !.next = Nil]
  ELSE [x EXCEPT !.previous = r[@], !.next = r[@]]

Commit(c, nd, q, cu, a) ==
  \E ord \in {Uniq(Roots(c, nd, q, cu, a), {})} :
    \E r \in {Renaming(ord)} :
      /\ cache' = [k \in Keys |-> r[c[k]]]
      /\ node' = [j \in AllIds |->
                    IF j \in {head, tail}
                    THEN [nd[j] EXCEPT !.previous = r[@], !.next = r[@]]
                    ELSE IF j <= Len(ord) THEN Moved(nd[ord[j]], r) ELSE ZeroNode]
      /\ queue' = [i \in 1..Len(q) |-> [q[i] EXCEPT !.n = r[@]]]
      /\ cur' = [cu EXCEPT !.n = r[@]]
      /\ arg' = [p \in Callers |-> [a[p] EXCEPT !.n = r[@]]]

FreeIds == {i \in NodeIds : node[i] = ZeroNode}

\* n := &node[K, V]{...}
NewNode == CHOOSE i \in FreeIds : \A j \in FreeIds : i <= j

\* ------------------------------------------------------------------ lock and channel
AssertLocked == lock.writer = 1

\* sync.RWMutex: a writer that has started Lock() keeps new readers and other
\* writers out while it waits for the readers inside to leave (lock.pending).
NoWriter == lock.holder = 0 /\ lock.pending = 0

LockFree == NoWriter /\ lock.readers = {}

Lock(who) == [lock EXCEPT !.holder = who, !.writer = 1, !.pending = 0]

Unlock == [lock EXCEPT !.holder = 0, !.writer = 0]

\* lru.events <- e : with no buffer the send completes when the processor
\* takes the event; with a buffer it completes when there is a free slot.
\* A send on a closed channel never completes: it panics (SendOnClosed).
CanSend ==
  /\ ~close.closed
  /\ IF cfg.buffer = 0 THEN cur = NoEvent /\ queue = <<>> ELSE Len(queue) < cfg.buffer

\* Event x was in the channel, or held by the processor, when the structural
\* event e was sent: x is marked as sent before a structural event.
Aged(x, e) ==
  IF cfg.track = "order" /\ Structural(e) /\ x # NoEvent THEN [x EXCEPT !.old = TRUE] ELSE x

SentQueue(e) ==
  IF cfg.buffer = 0 THEN queue
  ELSE Append([i \in 1..Len(queue) |-> Aged(queue[i], e)], e)

SentCur(e) == IF cfg.buffer = 0 THEN e ELSE Aged(cur, e)

Running == fault = "none"

\* ------------------------------------------------------------------ accessors
Capacity == cfg.capacity

\* Size(): lru.size, read under the read lock
Size == size

\* EntryCount(): len(lru.cache)
EntryCount == Cardinality({k \in Keys : cache[k] # Nil})

\* ------------------------------------------------------------------ history
NoSet == [p |-> 0, k |-> emptyK, v |-> emptyV, expires |-> ZeroTime]

\* the index and the size as a Set found them when it took the lock
NoBefore == [found |-> FALSE, count |-> 0, size |-> 0, old |-> 0]

Without(s, ks) == SelectSeq(s, LAMBDA x : x \notin ks)

\* a call has returned with the result r
Returned(r) == IF cfg.track = "calls" THEN r ELSE NoReturn

\* A call of caller p that used key k has returned.  hit: a successful Set or a
\* Get hit whose entry has not been removed in the meantime.  set: the last
\* successful Set with no Set or Delete returned since.
Used(p, k, hit, set) ==
  [recency |-> IF cfg.track = "recency" /\ hit
               THEN <<k>> \o Without(hist.recency, {k}) ELSE hist.recency,
   lastSet |-> IF cfg.track = "calls" THEN set ELSE hist.lastSet,
   everSet |-> IF cfg.track \in {"calls", "once"} /\ set # NoSet
               THEN hist.everSet \cup {set.k} ELSE hist.everSet,
   gets |-> hist.gets,
   before |-> NoBefore,
   purged |-> ZeroTime]

\* The batch of Get hits of the caller: the keys its Gets have found since its
\* last Set or Delete, the latest first.  h is the history after Used.
Batch(h, op, k, hit) ==
  IF cfg.track # "gets" THEN h
  ELSE IF op # "Get" THEN [h EXCEPT !.gets = <<>>]
  ELSE IF hit THEN [h EXCEPT !.gets = <<k>> \o Without(@, {k})]
  ELSE h

\* a Set has taken the lock and looked up its key k
Started(k) ==
  IF cfg.track # "calls" THEN hist
  ELSE [hist EXCEPT !.before = [found |-> cache[k] # Nil, count |-> EntryCount, size |-> size,
                                old |-> IF cache[k] # Nil THEN node[cache[k]].size ELSE 0],
                    !.purged = ZeroTime]

\* the processor has handled a RemoveExpired event at the time now
Purged(h) == IF cfg.track = "calls" THEN [h EXCEPT !.purged = now] ELSE h

\* Delete(k) has returned (del), or a Set has registered an entry for k
Deleted(k, del) ==
  IF cfg.track # "deletes" THEN gone
  ELSE IF del THEN gone \cup {k} ELSE gone \ {k}

\* the processor has removed the entries of the keys ks
Forget(ks) ==
  IF cfg.track = "recency" THEN [hist EXCEPT !.recency = Without(@, ks)]
  ELSE IF cfg.track = "gets" THEN [hist EXCEPT !.gets = Without(@, ks)]
  ELSE hist

\* ------------------------------------------------------------------ constructor
NewCacheWithBufferAndInterval(capacity, buffer, interval, purge, track) ==
  /\ cfg = [capacity |-> capacity, buffer |-> buffer, interval |-> interval,
            purgeOnFull |-> purge, track |-> track]
  /\ cache = [k \in Keys |-> Nil]
  /\ size = 0
  /\ node = [i \in AllIds |->
               IF i = head THEN [ZeroNode EXCEPT !.next = tail]
               ELSE IF i = tail THEN [ZeroNode EXCEPT !.previous = head]
               ELSE ZeroNode]
  /\ lock = [holder |-> 0, readers |-> {}, writer |-> 0, pending |-> 0]
  /\ queue = <<>>
  /\ cur = NoEvent
  /\ wgDone = {}
  /\ fault = "none"
  /\ close = [once |-> "new", closed |-> FALSE]
  /\ pc = [p \in Callers |-> "idle"]
  /\ arg = [p \in Callers |-> NoCall]
  /\ ret = NoReturn
  /\ spc = "wait"
  /\ epc = "range"
  /\ now = 1
  /\ gone = {}
  /\ hist = [recency |-> <<>>, lastSet |-> NoSet, everSet |-> {}, gets |-> <<>>,
             before |-> NoBefore, purged |-> ZeroTime]

\* ------------------------------------------------------------------ Set
\* the validation without the check of a zero cost
ValidateNoSmall(cost, expires) ==
  IF cost > cfg.capacity THEN ErrItemTooBig
  ELSE IF expires # ZeroTime /\ expires < now THEN ErrPastExpiry
  ELSE "none"

\* the validation rejecting an entry as large as the capacity
ValidateBelowCapacity(cost, expires) ==
  IF cost = 0 THEN ErrItemTooSmall
  ELSE IF cost >= cfg.capacity THEN ErrItemTooBig
  ELSE IF expires # ZeroTime /\ expires < now THEN ErrPastExpiry
  ELSE "none"

\* the three validations of SetWithSizeAndExpiry, in the order of the code
Validate(cost, expires) ==
  IF cost = 0 THEN ErrItemTooSmall
  ELSE IF cost > cfg.capacity THEN ErrItemTooBig
  ELSE IF expires # ZeroTime /\ expires < now THEN ErrPastExpiry
  ELSE "none"

\* Register without the addition to lru.size
RegisterNoSize(p, nd, a) ==
  /\ Commit([cache EXCEPT ![a[p].k] = a[p].n], nd, queue, cur, a)
  /\ size' = size
  /\ lock' = Unlock
  /\ gone' = Deleted(a[p].k, FALSE)
  /\ pc' = [pc EXCEPT ![p] = "set_send_touch"]

\* lru.cache[k] = n; lru.size = lru.size + n.size; lru.lock.Unlock()
Register(p, nd, a) ==
  /\ Commit([cache EXCEPT ![a[p].k] = a[p].n], nd, queue, cur, a)
  /\ size' = Add(size, nd[a[p].n].size)
  /\ lock' = Unlock
  /\ gone' = Deleted(a[p].k, FALSE)
  /\ pc' = [pc EXCEPT ![p] = "set_send_touch"]

\* the space check off by one: an entry one unit too large is admitted
SetSpaceShortOffByOne(cost) == Sub(cfg.capacity, size) + 1 < cost

\* spaceAvailable := lru.capacity - lru.size; spaceAvailable < size
SetSpaceShort(cost) == Sub(cfg.capacity, size) < cost

\* the branch on the free space, with the lock held
SpaceCheck(p, nd, a) ==
  IF SetSpaceShort(nd[a[p].n].size)
  THEN /\ pc' = [pc EXCEPT ![p] = IF cfg.purgeOnFull THEN "set_send_purge" ELSE "set_send_space"]
       /\ lock' = Lock(p)
       /\ Commit(cache, nd, queue, cur, a)
       /\ UNCHANGED <<size, gone>>
  ELSE Register(p, nd, a)

\* SetWithSizeAndExpiry up to its first send: the validation, the allocation of
\* the node, lru.lock.Lock(), the lookup of an existing entry and, without
\* one, the space check.  A rejected call returns here.
SetWithSizeAndExpiry(p, k, v, cost, expires) ==
  /\ Running
  /\ pc[p] = "idle"
  /\ IF Validate(cost, expires) # "none"
     THEN /\ ret' = Returned([NoReturn EXCEPT !.p = p, !.op = "Set", !.cost = cost,
                               !.expires = expires, !.err = Validate(cost, expires)])
          /\ hist' = Batch(Used(p, k, FALSE, NoSet), "Set", k, FALSE)
          /\ UNCHANGED <<pc, arg, node, cache, queue, cur, size, lock, gone>>
     ELSE /\ FreeIds # {}
          /\ LockFree
          /\ LET nd == [node EXCEPT ![NewNode] =
                          [ZeroNode EXCEPT !.key = k, !.value = v, !.size = cost, !.expires = expires]]
                 a == [arg EXCEPT ![p] = [op |-> "Set", k |-> k, n |-> NewNode]]
             IN IF cache[k] # Nil
                THEN /\ pc' = [pc EXCEPT ![p] = "set_send_remove"]
                     /\ lock' = Lock(p)
                     /\ Commit(cache, nd, queue, cur, a)
                     /\ UNCHANGED <<size, gone>>
                ELSE SpaceCheck(p, nd, a)
          /\ ret' = NoReturn
          /\ hist' = Started(k)
  /\ UNCHANGED <<cfg, close, epc, now, wgDone, fault, spc>>

\* deleteNode(existing): the send
SetSendRemove(p) ==
  /\ Running
  /\ pc[p] = "set_send_remove"
  /\ CanSend
  /\ LET e == [a |-> EventActionRemove, n |-> cache[arg[p].k], finished |-> p, old |-> FALSE]
     IN Commit(cache, node, SentQueue(e), SentCur(e), arg)
  /\ pc' = [pc EXCEPT ![p] = "set_wait_remove"]
  /\ ret' = NoReturn
  /\ UNCHANGED <<cfg, close, epc, now, size, lock, wgDone, fault, spc, gone, hist>>

\* deleteNode(existing): wg.Wait(), then the space check
SetWaitRemove(p) ==
  /\ Running
  /\ pc[p] = "set_wait_remove"
  /\ p \in wgDone
  /\ wgDone' = wgDone \ {p}
  /\ SpaceCheck(p, node, arg)
  /\ ret' = NoReturn
  /\ UNCHANGED <<cfg, close, epc, now, fault, spc, hist>>

\* Set going on to MakeSpaceFor without sending RemoveExpired
SetSkipPurge(p) ==
  /\ Running
  /\ pc[p] = "set_send_purge"
  /\ pc' = [pc EXCEPT ![p] = "set_send_space"]
  /\ ret' = NoReturn
  /\ UNCHANGED <<cfg, close, epc, now, cache, node, queue, cur, arg, size, lock, wgDone, fault,
                 spc, gone, hist>>

\* if PurgeExpiredEventsWhenCacheIsFull { lru.events <- RemoveExpired }
SetSendPurge(p) ==
  /\ Running
  /\ pc[p] = "set_send_purge"
  /\ CanSend
  /\ LET e == [a |-> EventActionRemoveExpired, n |-> Nil, finished |-> 0, old |-> FALSE]
     IN Commit(cache, node, SentQueue(e), SentCur(e), arg)
  /\ pc' = [pc EXCEPT ![p] = "set_send_space"]
  /\ ret' = NoReturn
  /\ UNCHANGED <<cfg, close, epc, now, size, lock, wgDone, fault, spc, gone, hist>>

SetSendSpace(p) ==
  /\ Running
  /\ pc[p] = "set_send_space"
  /\ CanSend
  /\ LET e == [a |-> EventActionMakeSpaceFor, n |-> arg[p].n, finished |-> p, old |-> FALSE]
     IN Commit(cache, node, SentQueue(e), SentCur(e), arg)
  /\ pc' = [pc EXCEPT ![p] = "set_wait_space"]
  /\ ret' = NoReturn
  /\ UNCHANGED <<cfg, close, epc, now, size, lock, wgDone, fault, spc, gone, hist>>

\* Set going on to register the entry without wg.Wait()
SetWaitSpaceNoWait(p) ==
  /\ Running
  /\ pc[p] = "set_wait_space"
  /\ wgDone' = wgDone \ {p}
  /\ Register(p, node, arg)
  /\ ret' = NoReturn
  /\ UNCHANGED <<cfg, close, epc, now, fault, spc, hist>>

\* wg.Wait() of MakeSpaceFor, then the registration of the entry
SetWaitSpace(p) ==
  /\ Running
  /\ pc[p] = "set_wait_space"
  /\ p \in wgDone
  /\ wgDone' = wgDone \ {p}
  /\ Register(p, node, arg)
  /\ ret' = NoReturn
  /\ UNCHANGED <<cfg, close, epc, now, fault, spc, hist>>

\* lru.events <- AddToFront(n); return nil
SetSendTouch(p) ==
  /\ Running
  /\ pc[p] = "set_send_touch"
  /\ CanSend
  /\ LET e == [a |-> EventActionAddToFront, n |-> arg[p].n, finished |-> 0, old |-> FALSE]
     IN Commit(cache, node, SentQueue(e), SentCur(e), [arg EXCEPT ![p] = NoCall])
  /\ pc' = [pc EXCEPT ![p] = "idle"]
  /\ LET n == node[arg[p].n]
     IN /\ ret' = Returned([NoReturn EXCEPT !.p = p, !.op = "Set", !.k = n.key, !.v = n.value,
                             !.cost = n.size, !.expires = n.expires])
        /\ hist' = Batch(Used(p, n.key, ~n.deleted,
                                [p |-> p, k |-> n.key, v |-> n.value, expires |-> n.expires]),
                           "Set", n.key, FALSE)
  /\ UNCHANGED <<cfg, close, epc, now, size, lock, wgDone, fault, spc, gone>>

\* ------------------------------------------------------------------ Get
\* lru.lock.RLock()
Get(p, k) ==
  /\ Running
  /\ pc[p] = "idle"
  /\ NoWriter
  /\ lock' = [lock EXCEPT !.readers = @ \cup {p}]
  /\ pc' = [pc EXCEPT ![p] = "get_lookup"]
  /\ arg' = [arg EXCEPT ![p] = [op |-> "Get", k |-> k, n |-> Nil]]
  /\ ret' = NoReturn
  /\ UNCHANGED <<cfg, close, epc, now, cache, size, node, queue, cur, wgDone, fault, spc, gone, hist>>

\* the lookup without the expiry test
GetHitIgnoringExpiry(n) == n # Nil

\* found, n != nil, and the entry has not expired
GetHit(n) == n # Nil /\ ~Expired(node[n], now)

\* the lookup that keeps the read lock until Get returns
GetLookupKeepsRLock(p) ==
  /\ Running
  /\ pc[p] = "get_lookup"
  /\ IF ~GetHit(cache[arg[p].k])
     THEN /\ pc' = [pc EXCEPT ![p] = "idle"]
          /\ arg' = [arg EXCEPT ![p] = NoCall]
          /\ lock' = [lock EXCEPT !.readers = @ \ {p}]
          /\ ret' = Returned([NoReturn EXCEPT !.p = p, !.op = "Get", !.k = arg[p].k,
                               !.value = emptyV, !.found = FALSE])
          /\ hist' = Batch(Used(p, arg[p].k, FALSE, hist.lastSet), "Get", arg[p].k, FALSE)
          /\ UNCHANGED <<cache, node, queue, cur>>
     ELSE /\ pc' = [pc EXCEPT ![p] = "get_send_touch"]
          /\ Commit(cache, node, queue, cur, [arg EXCEPT ![p].n = cache[arg[p].k]])
          /\ ret' = NoReturn
          /\ UNCHANGED <<hist, lock>>
  /\ UNCHANGED <<cfg, close, epc, now, size, wgDone, fault, spc, gone>>

\* the lookup that takes an expired entry out of the index
GetLookupPurges(p) ==
  /\ Running
  /\ pc[p] = "get_lookup"
  /\ lock' = [lock EXCEPT !.readers = @ \ {p}]
  /\ IF ~GetHit(cache[arg[p].k])
     THEN /\ pc' = [pc EXCEPT ![p] = "idle"]
          /\ Commit([cache EXCEPT ![arg[p].k] = Nil], node, queue, cur,
                    [arg EXCEPT ![p] = NoCall])
          /\ ret' = Returned([NoReturn EXCEPT !.p = p, !.op = "Get", !.k = arg[p].k,
                               !.value = emptyV, !.found = FALSE])
          /\ hist' = Batch(Used(p, arg[p].k, FALSE, hist.lastSet), "Get", arg[p].k, FALSE)
     ELSE /\ pc' = [pc EXCEPT ![p] = "get_send_touch"]
          /\ Commit(cache, node, queue, cur, [arg EXCEPT ![p].n = cache[arg[p].k]])
          /\ ret' = NoReturn
          /\ UNCHANGED hist
  /\ UNCHANGED <<cfg, close, epc, now, size, wgDone, fault, spc, gone>>

\* n, found := lru.cache[k]; RUnlock; the not-found and the expired returns
GetLookup(p) ==
  /\ Running
  /\ pc[p] = "get_lookup"
  /\ lock' = [lock EXCEPT !.readers = @ \ {p}]
  /\ IF ~GetHit(cache[arg[p].k])
     THEN /\ pc' = [pc EXCEPT ![p] = "idle"]
          /\ arg' = [arg EXCEPT ![p] = NoCall]
          /\ ret' = Returned([NoReturn EXCEPT !.p = p, !.op = "Get", !.k = arg[p].k,
                               !.value = emptyV, !.found = FALSE])
          /\ hist' = Batch(Used(p, arg[p].k, FALSE, hist.lastSet), "Get", arg[p].k, FALSE)
          /\ UNCHANGED <<cache, node, queue, cur>>
     ELSE /\ pc' = [pc EXCEPT ![p] = "get_send_touch"]
          /\ Commit(cache, node, queue, cur, [arg EXCEPT ![p].n = cache[arg[p].k]])
          /\ ret' = NoReturn
          /\ UNCHANGED hist
  /\ UNCHANGED <<cfg, close, epc, now, size, wgDone, fault, spc, gone>>

\* lru.events <- AddToFront(n); return n.value, true
GetSendTouch(p) ==
  /\ Running
  /\ pc[p] = "get_send_touch"
  /\ CanSend
  /\ LET e == [a |-> EventActionAddToFront, n |-> arg[p].n, finished |-> 0, old |-> FALSE]
     IN Commit(cache, node, SentQueue(e), SentCur(e), [arg EXCEPT ![p] = NoCall])
  /\ pc' = [pc EXCEPT ![p] = "idle"]
  /\ ret' = Returned([NoReturn EXCEPT !.p = p, !.op = "Get", !.k = arg[p].k,
                       !.value = node[arg[p].n].value, !.found = TRUE])
  /\ hist' = Batch(Used(p, arg[p].k, ~node[arg[p].n].deleted, hist.lastSet),
                   "Get", arg[p].k, ~node[arg[p].n].deleted)
  /\ UNCHANGED <<cfg, close, epc, now, size, lock, wgDone, fault, spc, gone>>

\* ------------------------------------------------------------------ Delete
\* Delete sending a Remove event whether or not the key has an entry
DeleteAlwaysSends(p, k) ==
  /\ Running
  /\ pc[p] = "idle"
  /\ LockFree
  /\ lock' = Lock(p)
  /\ pc' = [pc EXCEPT ![p] = "del_send_remove"]
  /\ Commit(cache, node, queue, cur, [arg EXCEPT ![p] = [op |-> "Delete", k |-> k, n |-> cache[k]]])
  /\ ret' = NoReturn
  /\ UNCHANGED <<cfg, close, epc, now, size, wgDone, fault, spc, gone, hist>>

\* lru.lock.Lock(); n, found := lru.cache[k]; without an entry: Unlock and return
Delete(p, k) ==
  /\ Running
  /\ pc[p] = "idle"
  /\ LockFree
  /\ IF cache[k] # Nil
     THEN /\ lock' = Lock(p)
          /\ pc' = [pc EXCEPT ![p] = "del_send_remove"]
          /\ Commit(cache, node, queue, cur,
                    [arg EXCEPT ![p] = [op |-> "Delete", k |-> k, n |-> cache[k]]])
          /\ ret' = NoReturn
          /\ UNCHANGED <<gone, hist>>
     ELSE /\ ret' = Returned([NoReturn EXCEPT !.p = p, !.op = "Delete", !.k = k])
          /\ gone' = Deleted(k, TRUE)
          /\ hist' = Batch(Used(p, k, FALSE, NoSet), "Delete", k, FALSE)
          /\ UNCHANGED <<lock, pc, arg, cache, node, queue, cur>>
  /\ UNCHANGED <<cfg, close, epc, now, size, wgDone, fault, spc>>

\* deleteNode(n): the send
DeleteSendRemove(p) ==
  /\ Running
  /\ pc[p] = "del_send_remove"
  /\ CanSend
  /\ LET e == [a |-> EventActionRemove, n |-> arg[p].n, finished |-> p, old |-> FALSE]
     IN Commit(cache, node, SentQueue(e), SentCur(e), arg)
  /\ pc' = [pc EXCEPT ![p] = "del_wait_remove"]
  /\ ret' = NoReturn
  /\ UNCHANGED <<cfg, close, epc, now, size, lock, wgDone, fault, spc, gone, hist>>

\* Delete returning without waiting for the Remove event to be handled
DeleteWithoutWait(p) ==
  /\ Running
  /\ pc[p] = "del_wait_remove"
  /\ wgDone' = wgDone \ {p}
  /\ lock' = Unlock
  /\ pc' = [pc EXCEPT ![p] = "idle"]
  /\ Commit(cache, node, queue, cur, [arg EXCEPT ![p] = NoCall])
  /\ ret' = Returned([NoReturn EXCEPT !.p = p, !.op = "Delete", !.k = arg[p].k, !.found = TRUE])
  /\ gone' = Deleted(arg[p].k, TRUE)
  /\ hist' = Batch(Used(p, arg[p].k, FALSE, NoSet), "Delete", arg[p].k, FALSE)
  /\ UNCHANGED <<cfg, close, epc, now, size, fault, spc>>

\* deleteNode(n): wg.Wait(); lru.lock.Unlock()
DeleteWaitRemove(p) ==
  /\ Running
  /\ pc[p] = "del_wait_remove"
  /\ p \in wgDone
  /\ wgDone' = wgDone \ {p}
  /\ lock' = Unlock
  /\ pc' = [pc EXCEPT ![p] = "idle"]
  /\ Commit(cache, node, queue, cur, [arg EXCEPT ![p] = NoCall])
  /\ ret' = Returned([NoReturn EXCEPT !.p = p, !.op = "Delete", !.k = arg[p].k, !.found = TRUE])
  /\ gone' = Deleted(arg[p].k, TRUE)
  /\ hist' = Batch(Used(p, arg[p].k, FALSE, NoSet), "Delete", arg[p].k, FALSE)
  /\ UNCHANGED <<cfg, close, epc, now, size, fault, spc>>

\* ------------------------------------------------------------------ Close
\* Close(): lru.close.Do(f) is called
Close(p) ==
  /\ Running
  /\ pc[p] = "idle"
  /\ pc' = [pc EXCEPT ![p] = "close_do"]
  /\ arg' = [arg EXCEPT ![p] = [op |-> "Close", k |-> emptyK, n |-> Nil]]
  /\ ret' = NoReturn
  /\ UNCHANGED <<cfg, close, epc, now, cache, size, node, lock, queue, cur, wgDone, fault, spc,
                 gone, hist>>

\* Close() has returned; found tells whether this call ran f
CloseReturned(p, first) ==
  /\ pc' = [pc EXCEPT ![p] = "idle"]
  /\ arg' = [arg EXCEPT ![p] = NoCall]
  /\ ret' = Returned([NoReturn EXCEPT !.p = p, !.op = "Close", !.found = first])

\* f run by every call: close(lru.events) on a channel already closed panics,
\* and lru.done <- true has no receiver left
CloseDoAgain(p) ==
  /\ Running
  /\ pc[p] = "close_do"
  /\ IF cfg.interval > 0
     THEN /\ close' = [close EXCEPT !.once = "doing"]
          /\ pc' = [pc EXCEPT ![p] = "close_send_done"]
          /\ ret' = NoReturn
          /\ UNCHANGED <<arg, fault>>
     ELSE IF close.closed
     THEN /\ fault' = "close of closed channel"
          /\ ret' = NoReturn
          /\ UNCHANGED <<close, pc, arg>>
     ELSE /\ close' = [once |-> "done", closed |-> TRUE]
          /\ CloseReturned(p, TRUE)
          /\ UNCHANGED fault
  /\ UNCHANGED <<cfg, epc, now, cache, size, node, lock, queue, cur, wgDone, spc, gone, hist>>

\* f closing the channel without the stop signal to the sweeper
CloseDoNoStop(p) ==
  /\ Running
  /\ pc[p] = "close_do"
  /\ close.once # "doing"
  /\ IF close.once = "done"
     THEN /\ CloseReturned(p, FALSE)
          /\ UNCHANGED close
     ELSE /\ close' = [once |-> "done", closed |-> TRUE]
          /\ CloseReturned(p, TRUE)
  /\ UNCHANGED <<cfg, epc, now, cache, size, node, lock, queue, cur, wgDone, fault, spc, gone, hist>>

\* sync.Once.Do: a call after f has run returns at once, a call while f runs
\* waits for it, the first call runs f: without a sweeper f is close(lru.events)
CloseDo(p) ==
  /\ Running
  /\ pc[p] = "close_do"
  /\ close.once # "doing"
  /\ IF close.once = "done"
     THEN /\ CloseReturned(p, FALSE)
          /\ UNCHANGED close
     ELSE IF cfg.interval > 0
     THEN /\ close' = [close EXCEPT !.once = "doing"]
          /\ pc' = [pc EXCEPT ![p] = "close_send_done"]
          /\ ret' = NoReturn
          /\ UNCHANGED arg
     ELSE /\ close' = [once |-> "done", closed |-> TRUE]
          /\ CloseReturned(p, TRUE)
  /\ UNCHANGED <<cfg, epc, now, cache, size, node, lock, queue, cur, wgDone, fault, spc, gone, hist>>

\* lru.done <- true, received by purgeExpired in its select, which returns;
\* then close(lru.events)
CloseSendDone(p) ==
  /\ Running
  /\ pc[p] = "close_send_done"
  /\ spc = "wait"
  /\ spc' = "exit"
  /\ close' = [once |-> "done", closed |-> TRUE]
  /\ CloseReturned(p, TRUE)
  /\ UNCHANGED <<cfg, epc, now, cache, size, node, lock, queue, cur, wgDone, fault, gone, hist>>

\* the positions of a caller at a send on lru.events
SendPcs ==
  {"set_send_remove", "set_send_purge", "set_send_space", "set_send_touch",
   "get_send_touch", "del_send_remove"}

\* a send on the closed channel panics
SendOnClosed ==
  /\ Running
  /\ close.closed
  /\ spc = "send" \/ \E p \in Callers : pc[p] \in SendPcs
  /\ fault' = "send on closed channel"
  /\ ret' = NoReturn
  /\ UNCHANGED <<cfg, close, epc, now, cache, size, node, lock, queue, cur, wgDone, pc, arg, spc,
                 gone, hist>>

\* ------------------------------------------------------------------ processEvents
\* the receive taking the event sent last
ProcReceiveLast ==
  /\ Running
  /\ cur = NoEvent
  /\ queue # <<>>
  /\ Commit(cache, node, SubSeq(queue, 1, Len(queue) - 1), queue[Len(queue)], arg)
  /\ ret' = NoReturn
  /\ UNCHANGED <<cfg, close, epc, now, size, lock, wgDone, fault, pc, spc, gone, hist>>

\* for e := range lru.events (the receive from a buffered channel)
ProcReceive ==
  /\ Running
  /\ cur = NoEvent
  /\ queue # <<>>
  /\ Commit(cache, node, Tail(queue), Head(queue), arg)
  /\ ret' = NoReturn
  /\ UNCHANGED <<cfg, close, epc, now, size, lock, wgDone, fault, pc, spc, gone, hist>>

\* if e.finished != nil { e.finished.Done() }, and the next iteration of the range
Finish(c, nd) ==
  /\ wgDone' = IF cur.finished # 0 THEN wgDone \cup {cur.finished} ELSE wgDone
  /\ Commit(c, nd, queue, NoEvent, arg)
  /\ UNCHANGED fault

\* a failed AssertLocked
Panic(msg) ==
  /\ fault' = msg
  /\ UNCHANGED <<cache, size, node, queue, cur, arg, wgDone, hist>>

\* the removal without the subtraction of the entry's cost from lru.size
ProcRemoveKeepsSize ==
  /\ Running
  /\ cur.a = EventActionRemove
  /\ IF ~AssertLocked
     THEN Panic("Write lock is not held")
     ELSE /\ size' = size
          /\ hist' = Forget({node[cur.n].key})
          /\ Finish([cache EXCEPT ![node[cur.n].key] = Nil],
                    flagAsDeleted(removeNodeFromList(node, cur.n), cur.n))
  /\ ret' = NoReturn
  /\ UNCHANGED <<cfg, close, epc, now, lock, pc, spc, gone>>

ProcRemove ==
  /\ Running
  /\ cur.a = EventActionRemove
  /\ IF ~AssertLocked
     THEN Panic("Write lock is not held")
     ELSE /\ size' = Sub(size, node[cur.n].size)
          /\ hist' = Forget({node[cur.n].key})
          /\ Finish([cache EXCEPT ![node[cur.n].key] = Nil],
                    flagAsDeleted(removeNodeFromList(node, cur.n), cur.n))
  /\ ret' = NoReturn
  /\ UNCHANGED <<cfg, close, epc, now, lock, pc, spc, gone>>

\* the touch applied without the test of the deleted flag
ProcAddToFrontUnguarded ==
  /\ Running
  /\ cur.a = EventActionAddToFront
  /\ Finish(cache, addNodeToHead(node, cur.n))
  /\ ret' = NoReturn
  /\ UNCHANGED <<cfg, close, epc, now, size, lock, pc, spc, gone, hist>>

ProcAddToFront ==
  /\ Running
  /\ cur.a = EventActionAddToFront
  /\ Finish(cache, IF ~node[cur.n].deleted THEN addNodeToHead(node, cur.n) ELSE node)
  /\ ret' = NoReturn
  /\ UNCHANGED <<cfg, close, epc, now, size, lock, pc, spc, gone, hist>>

\* the loop running once more when the space is exactly enough
LoopSpaceShortOrEqual(n) == Sub(cfg.capacity, size) <= node[n].size

\* the loop condition of MakeSpaceFor: spaceAvailable < e.n.size
LoopSpaceShort(n) == Sub(cfg.capacity, size) < node[n].size

\* case EventActionMakeSpaceFor: the test of the loop, and the end of the case
\* when the space suffices
ProcMakeSpaceFor ==
  /\ Running
  /\ cur.a = EventActionMakeSpaceFor
  /\ epc = "range"
  /\ IF LoopSpaceShort(cur.n)
     THEN /\ epc' = "evict"
          /\ UNCHANGED <<cache, node, queue, cur, arg, wgDone, fault>>
     ELSE /\ Finish(cache, node)
          /\ UNCHANGED epc
  /\ ret' = NoReturn
  /\ UNCHANGED <<cfg, close, now, size, lock, pc, spc, gone, hist>>

\* the body of the loop of MakeSpaceFor: the node before the tail sentinel is
\* unlinked, taken out of the index and flagged
ProcEvict ==
  /\ Running
  /\ epc = "evict"
  /\ IF ~AssertLocked
     THEN /\ Panic("Write lock is not held")
          /\ UNCHANGED <<size, epc>>
     ELSE LET removed == node[tail].previous
          IN /\ size' = Sub(size, node[removed].size)
             /\ hist' = Forget({node[removed].key})
             /\ Commit([cache EXCEPT ![node[removed].key] = Nil],
                       flagAsDeleted(removeNodeFromTail(node), removed),
                       queue, cur, arg)
             /\ epc' = "range"
             /\ UNCHANGED <<wgDone, fault>>
  /\ ret' = NoReturn
  /\ UNCHANGED <<cfg, close, now, lock, pc, spc, gone>>

\* the scan that also takes the entries expiring at this very time
ExpiredKeysOrNow ==
  {k \in Keys : cache[k] # Nil /\ node[cache[k]].expires # ZeroTime
                              /\ node[cache[k]].expires <= now}

\* The entries RemoveExpired removes: every entry of the index that is expired.
ExpiredKeys == {k \in Keys : cache[k] # Nil /\ Expired(node[cache[k]], now)}

RECURSIVE RemoveAll(_, _)
RemoveAll(nd, ns) ==
  IF ns = {} THEN nd
  ELSE LET n == CHOOSE x \in ns : TRUE
       IN RemoveAll(flagAsDeleted(removeNodeFromList(nd, n), n), ns \ {n})

RECURSIVE SumSize(_, _)
SumSize(nd, ns) ==
  IF ns = {} THEN 0
  ELSE LET n == CHOOSE x \in ns : TRUE
       IN nd[n].size + SumSize(nd, ns \ {n})

ProcRemoveExpired ==
  /\ Running
  /\ cur.a = EventActionRemoveExpired
  /\ IF ExpiredKeys # {} /\ ~AssertLocked
     THEN Panic("Write lock is not held")
     ELSE LET ns == {cache[k] : k \in ExpiredKeys}
          IN /\ size' = Sub(size, SumSize(node, ns))
             /\ hist' = Purged(Forget(ExpiredKeys))
             /\ Finish([k \in Keys |-> IF k \in ExpiredKeys THEN Nil ELSE cache[k]],
                       RemoveAll(node, ns))
  /\ ret' = NoReturn
  /\ UNCHANGED <<cfg, close, epc, now, lock, pc, spc, gone>>

\* ------------------------------------------------------------------ purgeExpired
\* case <-time.After(dur): lru.lock.Lock() is started.  The timer firing while
\* another writer holds the lock is not told apart from the timer firing later.
SweepTimer ==
  /\ Running
  /\ cfg.interval > 0
  /\ spc = "wait"
  /\ NoWriter
  /\ lock' = [lock EXCEPT !.pending = Sweeper]
  /\ spc' = "lock"
  /\ ret' = NoReturn
  /\ UNCHANGED <<cfg, close, epc, now, cache, size, node, queue, cur, wgDone, fault, pc, arg, gone, hist>>

\* the sweeper going on to send without taking the write lock
SweepLockSkipped ==
  /\ Running
  /\ spc = "lock"
  /\ lock' = [lock EXCEPT !.pending = 0]
  /\ spc' = "send"
  /\ ret' = NoReturn
  /\ UNCHANGED <<cfg, close, epc, now, cache, size, node, queue, cur, wgDone, fault, pc, arg, gone, hist>>

\* case <-time.After(dur) while another writer holds the lock: lru.lock.Lock()
\* is started and waits behind that writer, and the sweeper is no longer in
\* its select, where alone it receives from lru.done
SweepTimerBlocked ==
  /\ Running
  /\ cfg.interval > 0
  /\ spc = "wait"
  /\ lock.holder # 0
  /\ spc' = "lock"
  /\ ret' = NoReturn
  /\ UNCHANGED <<cfg, close, epc, now, cache, size, node, lock, queue, cur, wgDone, fault, pc, arg, gone, hist>>

\* lru.lock.Lock() returns once the writer and the readers have left; with
\* readers inside, the sweeper first keeps new readers out
SweepLock ==
  /\ Running
  /\ spc = "lock"
  /\ lock.holder = 0
  /\ lock.pending \in {0, Sweeper}
  /\ IF lock.readers = {}
     THEN /\ lock' = Lock(Sweeper)
          /\ spc' = "send"
     ELSE /\ lock.pending = 0
          /\ lock' = [lock EXCEPT !.pending = Sweeper]
          /\ spc' = "lock"
  /\ ret' = NoReturn
  /\ UNCHANGED <<cfg, close, epc, now, cache, size, node, queue, cur, wgDone, fault, pc, arg, gone, hist>>

SweepSend ==
  /\ Running
  /\ spc = "send"
  /\ CanSend
  /\ LET e == [a |-> EventActionRemoveExpired, n |-> Nil, finished |-> Sweeper, old |-> FALSE]
     IN Commit(cache, node, SentQueue(e), SentCur(e), arg)
  /\ spc' = "await"
  /\ ret' = NoReturn
  /\ UNCHANGED <<cfg, close, epc, now, size, lock, wgDone, fault, pc, gone, hist>>

SweepWait ==
  /\ Running
  /\ spc = "await"
  /\ Sweeper \in wgDone
  /\ wgDone' = wgDone \ {Sweeper}
  /\ lock' = Unlock
  /\ spc' = "wait"
  /\ ret' = NoReturn
  /\ UNCHANGED <<cfg, close, epc, now, cache, size, node, queue, cur, fault, pc, arg, gone, hist>>

\* ------------------------------------------------------------------ time
Tick ==
  /\ Running
  /\ now < MaxTime
  /\ now' = now + 1
  /\ ret' = NoReturn
  /\ UNCHANGED <<cfg, close, epc, cache, size, node, lock, queue, cur, wgDone, fault, pc, arg, spc, gone, hist>>

\* ------------------------------------------------------------------ specifications
\* caller p starts a call with a key of ks; its Set calls store values of vs
\* with expiries of xs
Call(p, ks, vs, xs) ==
  \/ \E k \in ks, v \in vs, cost \in Costs, expires \in xs :
       SetWithSizeAndExpiry(p, k, v, cost, expires)
  \/ \E k \in ks : Get(p, k)
  \/ \E k \in ks : Delete(p, k)

\* the next step of the call caller p is in
Continue(p) ==
  \/ SetSendRemove(p)
  \/ SetWaitRemove(p)
  \/ SetSendPurge(p)
  \/ SetSendSpace(p)
  \/ SetWaitSpace(p)
  \/ SetSendTouch(p)
  \/ GetLookup(p)
  \/ GetSendTouch(p)
  \/ DeleteSendRemove(p)
  \/ DeleteWaitRemove(p)

CallerStep(p, ks, vs, xs) == Call(p, ks, vs, xs) \/ Continue(p)

\* the processor handles the event it holds
ProcHandle ==
  \/ ProcRemove
  \/ ProcAddToFront
  \/ ProcMakeSpaceFor
  \/ ProcEvict
  \/ ProcRemoveExpired

ProcStep == ProcReceive \/ ProcHandle

SweepStep ==
  \/ SweepTimer
  \/ SweepLock
  \/ SweepSend
  \/ SweepWait

\* Concurrent callers on an unbuffered channel, the processor, the sweeper and
\* the clock.
Init ==
  \E purge \in BOOLEAN :
    NewCacheWithBufferAndInterval(MaxCapacity, 0, 1, purge, "none")

\* On an unbuffered channel the processor holds an event as soon as it is sent.
Next ==
  \/ \E p \in Callers : CallerStep(p, FewKeys, {1}, Expiries)
  \/ ProcHandle
  \/ SweepStep
  \/ Tick

Spec == Init /\ [][Next]_vars

\* Concurrent callers at every buffer depth, their entries without expiry; the
\* keys whose Delete has returned are recorded.
InitBuf ==
  \E buffer \in 0..MaxBuffer, purge \in BOOLEAN :
    NewCacheWithBufferAndInterval(MaxCapacity, buffer, 0, purge, "deletes")

NextBuf ==
  \/ \E p \in Callers : CallerStep(p, FewKeys, {1}, {ZeroTime})
  \/ ProcStep

SpecBuf == InitBuf /\ [][NextBuf]_vars

\* One sequential caller, the sweeper and the clock; the recency order of the
\* caller's completed calls is recorded.
InitSeq ==
  \E capacity \in 1..MaxCapacity, buffer \in 0..MaxBuffer, purge \in BOOLEAN :
    NewCacheWithBufferAndInterval(capacity, buffer, 1, purge, "recency")

NextSeq ==
  \/ CallerStep(1, Keys, {1}, Expiries)
  \/ ProcStep
  \/ SweepStep
  \/ Tick

SpecSeq == InitSeq /\ [][NextSeq]_vars

\* One sequential caller and the clock; every return is recorded with its result.
InitCalls ==
  \E capacity \in 1..MaxCapacity, buffer \in 0..MaxBuffer, purge \in BOOLEAN :
    NewCacheWithBufferAndInterval(capacity, buffer, 0, purge, "calls")

NextCalls ==
  \/ CallerStep(1, FewKeys, Values, Expiries)
  \/ ProcStep
  \/ Tick

SpecCalls == InitCalls /\ [][NextCalls]_vars

\* Concurrent callers of a cache of capacity 1, under fair scheduling: the
\* processor keeps running, and a call that can take its next step again and
\* again takes it.
InitFair ==
  \E buffer \in 0..MaxBuffer, purge \in BOOLEAN :
    NewCacheWithBufferAndInterval(1, buffer, 0, purge, "none")

NextFair ==
  \/ \E p \in Callers : CallerStep(p, FewKeys, {1}, {ZeroTime})
  \/ ProcStep

SpecFair ==
  /\ InitFair
  /\ [][NextFair]_vars
  /\ WF_vars(ProcStep)
  /\ \A p \in Callers : SF_vars(Continue(p))

\* One sequential caller whose entries never expire; the batch of its Get hits
\* since its last Set or Delete is recorded.
InitGets ==
  \E capacity \in 1..MaxCapacity, buffer \in 0..MaxBuffer, purge \in BOOLEAN :
    NewCacheWithBufferAndInterval(capacity, buffer, 0, purge, "gets")

NextGets ==
  \/ CallerStep(1, Keys, {1}, {ZeroTime})
  \/ ProcStep

SpecGets == InitGets /\ [][NextGets]_vars

\* One sequential caller of a cache that purges when it is full, and the clock.
InitPurge ==
  \E buffer \in 0..MaxBuffer :
    NewCacheWithBufferAndInterval(MaxCapacity, buffer, 0, TRUE, "calls")

NextPurge ==
  \/ CallerStep(1, Keys, {1}, Expiries)
  \/ ProcStep
  \/ Tick

SpecPurge == InitPurge /\ [][NextPurge]_vars

\* Concurrent callers of a cache of capacity 1 with the sweeper and the clock,
\* under fair scheduling: the processor keeps running, a call that can take
\* its next step again and again takes it, and so does the sweeper (its timer
\* fires, and sync.RWMutex does not starve a waiting writer).
InitSweep == NewCacheWithBufferAndInterval(1, 0, 1, TRUE, "none")

NextSweep ==
  \/ \E p \in Callers : CallerStep(p, FewKeys, {1}, Expiries)
  \/ ProcHandle
  \/ SweepStep
  \/ Tick

SpecSweep ==
  /\ InitSweep
  /\ [][NextSweep]_vars
  /\ WF_vars(ProcHandle)
  /\ SF_vars(SweepStep)
  /\ \A p \in Callers : SF_vars(Continue(p))

\* Concurrent callers that also close the cache, without and with the sweeper;
\* every return is recorded.
InitClose ==
  \E interval \in 0..1 :
    NewCacheWithBufferAndInterval(1, MaxBuffer, interval, TRUE, "calls")

NextClose ==
  \/ \E p \in Callers :
       \/ CallerStep(p, FewKeys, {1}, {ZeroTime})
       \/ Close(p)
       \/ CloseDo(p)
       \/ CloseSendDone(p)
  \/ ProcStep
  \/ SweepStep
  \/ SweepTimerBlocked
  \/ SendOnClosed

SpecClose == InitClose /\ [][NextClose]_vars

\* Every caller sets its own key once, with unit cost and no expiry, into a
\* cache too small for all of them (TestCache_ConcurrentAccess).
SetOnce(p) ==
  /\ (p - 1) \notin hist.everSet
  /\ SetWithSizeAndExpiry(p, p - 1, 1, 1, ZeroTime)

InitOnce ==
  \E capacity \in 1..(NumCallers - 1), buffer \in 0..MaxBuffer, purge \in BOOLEAN :
    NewCacheWithBufferAndInterval(capacity, buffer, 0, purge, "once")

NextOnce ==
  \/ \E p \in Callers :
       \/ SetOnce(p)
       \/ SetSendPurge(p)
       \/ SetSendSpace(p)
       \/ SetWaitSpace(p)
       \/ SetSendTouch(p)
  \/ ProcReceive
  \/ ProcAddToFront
  \/ ProcMakeSpaceFor
  \/ ProcEvict
  \/ ProcRemoveExpired

SpecOnce == InitOnce /\ [][NextOnce]_vars

\* Concurrent callers of a cache of capacity 1 that purges when it is full, on
\* a channel deep enough to hold more than one event; the events in the
\* channel when a structural event is sent are marked.
InitFifo == NewCacheWithBufferAndInterval(1, MaxBuffer + 1, 0, TRUE, "order")

NextFifo ==
  \/ \E p \in Callers : CallerStep(p, FewKeys, {1}, {ZeroTime})
  \/ ProcStep

SpecFifo == InitFifo /\ [][NextFifo]_vars

\* One caller that sets, gets and deletes while a second caller only gets, at
\* every buffer depth: every touch of an entry that has been removed in the
\* meantime is the touch of a Get.
InitReader ==
  \E buffer \in 0..MaxBuffer :
    NewCacheWithBufferAndInterval(MaxCapacity, buffer, 0, TRUE, "none")

NextReader ==
  \/ CallerStep(1, FewKeys, Values, {ZeroTime})
  \/ \E k \in FewKeys : Get(NumCallers, k)
  \/ Continue(NumCallers)
  \/ ProcStep

SpecReader == InitReader /\ [][NextReader]_vars

\* the positions of a caller inside Close
ClosePcs == {"close_do", "close_send_done"}

\* Callers of a cache with the sweeper that close it as the spec requires:
\* Close is called when no Set, Get or Delete is in progress, and none is
\* started once a Close has been called.  Under fair scheduling the processor
\* keeps running, a call that can take its next step again and again takes
\* it, and so does the sweeper; lru.done <- true is taken by the select of the
\* sweeper whenever it is back there, since its timer needs dur > 0 to fire.
InitShut == NewCacheWithBufferAndInterval(1, MaxBuffer, 1, TRUE, "none")

CloseStep(p) ==
  \/ /\ \A q \in Callers : pc[q] \in {"idle"} \cup ClosePcs
     /\ Close(p)
  \/ CloseDo(p)
  \/ CloseSendDone(p)

SweepShut == SweepStep \/ SweepTimerBlocked

NextShut ==
  \/ \E p \in Callers :
       \/ /\ close.once = "new"
          /\ \A q \in Callers : pc[q] \notin ClosePcs
          /\ Call(p, FewKeys, {1}, {ZeroTime})
       \/ Continue(p)
       \/ CloseStep(p)
  \/ ProcStep
  \/ SweepShut

SpecShut ==
  /\ InitShut
  /\ [][NextShut]_vars
  /\ WF_vars(ProcStep)
  /\ SF_vars(SweepShut)
  /\ \A p \in Callers : SF_vars(Continue(p)) /\ SF_vars(CloseStep(p))

\* ------------------------------------------------------------------ properties
\* the nodes the index points to
IndexNodes == {cache[k] : k \in {x \in Keys : cache[x] # Nil}}

\* a caller is inside a call
InCall(p) == pc[p] # "idle"

\* C1: in every reachable state, under any interleaving of the concurrent
\* callers and the sweeper, the size of the cache is at most its capacity.
C1_SizeWithinCapacity == Size <= Capacity

\* a full cache while both callers are inside a call and the sweeper holds the lock
C1_Witness ==
  /\ Size = Capacity
  /\ \A p \in Callers : InCall(p)
  /\ spc = "await"
  /\ EntryCount = 2

\* C2: whenever no writer holds the write lock, Size() is the sum of the costs
\* of the entries of the index and EntryCount() is the number of those entries.
C2_SizeIsSumOfIndex ==
  lock.holder = 0 =>
    /\ Size = SumSize(node, IndexNodes)
    /\ EntryCount = Cardinality(IndexNodes)

\* two entries in the index after a removal, one of them not yet linked,
\* with no writer
C2_Witness ==
  /\ lock.holder = 0
  /\ EntryCount = 2
  /\ Size = 2
  /\ \E i \in NodeIds : node[i].deleted
  /\ \E p \in Callers : pc[p] = "set_send_touch"

\* the keys whose entry an iteration of the loop of MakeSpaceFor takes out of the index
Evicted ==
  IF cur.a = EventActionMakeSpaceFor
  THEN {k \in Keys : cache[k] # Nil /\ cache'[k] = Nil}
  ELSE {}

\* C3: for a single sequential caller, at every buffer depth, an eviction takes
\* the least recently used entry, where recency is the order of the caller's
\* completed successful Set and Get-hit calls.
C3_EvictsLeastRecentlyUsed ==
  [][Evicted # {} =>
       /\ hist.recency # <<>>
       /\ Evicted = {hist.recency[Len(hist.recency)]}]_vars

\* one of two entries has been evicted for a third key, on a buffered channel
C3_Witness ==
  /\ cur.a = EventActionMakeSpaceFor
  /\ cfg.buffer = 1
  /\ ~cfg.purgeOnFull
  /\ node[cur.n].size = 1
  /\ Size = 1
  /\ Len(hist.recency) = 1
  /\ cache[hist.recency[1]] # Nil
  /\ node[cur.n].key # hist.recency[1]

\* C4: an eviction happens only while the free space is less than the cost of
\* the incoming entry, so the loop stops as soon as the entry fits and evicts
\* nothing when it fits already.
C4_NeverOverEvicts ==
  [][Evicted # {} => Capacity - Size < node[cur.n].size]_vars

\* the loop has evicted one unit entry for a unit entry and left the other
C4_Witness ==
  /\ cur.a = EventActionMakeSpaceFor
  /\ Capacity = 2
  /\ node[cur.n].size = 1
  /\ Size = 1
  /\ EntryCount = 1
  /\ Len(List(node)) = 1
  /\ cache[node[cur.n].key] = Nil

\* the Get of caller p finds its entry
GetHits(p) == pc[p] = "get_lookup" /\ pc'[p] = "get_send_touch"

\* C5: at every buffer depth, once Delete(k) has returned no Get(k) finds an
\* entry until a Set registers k again, whatever touches are still queued.
C5_DeleteIsVisible ==
  [][\A p \in Callers : GetHits(p) => arg[p].k \notin gone]_vars

\* a Get looks up a deleted key while a touch of the key's removed entry is queued
C5_Witness ==
  \E p \in Callers :
    /\ pc[p] = "get_lookup"
    /\ arg[p].k \in gone
    /\ cache[arg[p].k] = Nil
    /\ \E i \in 1..Len(queue) :
         /\ queue[i].a = EventActionAddToFront
         /\ node[queue[i].n].deleted
         /\ node[queue[i].n].key = arg[p].k

\* C6: a Get of the key of the last successful Set, with no Set or Delete
\* returned in between, returns the value stored and true unless the entry has
\* expired; a Get of a key that was never set returns the zero value and false.
C6_RoundTrip ==
  [][ret'.op = "Get" =>
       /\ (hist.lastSet # NoSet /\ hist.lastSet.k = ret'.k) =>
            IF ret'.found
            THEN ret'.value = hist.lastSet.v
            ELSE hist.lastSet.expires # ZeroTime /\ hist.lastSet.expires < now
       /\ ret'.k \notin hist.everSet => ~ret'.found /\ ret'.value = emptyV]_vars

\* a Get has returned the second value stored for its key, on a buffered channel
C6_Witness ==
  /\ ret.op = "Get"
  /\ ret.found
  /\ ret.value = 2
  /\ hist.lastSet.k = ret.k
  /\ hist.lastSet.v = 2
  /\ hist.lastSet.expires # ZeroTime
  /\ cfg.buffer = 1

\* a Set call of caller p passes the validation in this step
SetAccepted(p) == pc[p] = "idle" /\ arg'[p].op = "Set"

\* C7: a Set with cost 0, a cost above the capacity or an expiry in the past is
\* never accepted; it returns the matching error and leaves the index, the
\* size, the list, the channel and the lock as they were.
C7_RejectedSetChangesNothing ==
  [][/\ \A p \in Callers : SetAccepted(p) =>
          /\ node'[arg'[p].n].size \in 1..Capacity
          /\ ~(node'[arg'[p].n].expires # ZeroTime /\ node'[arg'[p].n].expires < now)
     /\ (ret'.op = "Set" /\ ret'.err # "none") =>
          /\ ret'.err = IF ret'.cost = 0 THEN ErrItemTooSmall
                        ELSE IF ret'.cost > Capacity THEN ErrItemTooBig
                        ELSE ErrPastExpiry
          /\ UNCHANGED <<cache, size, node, queue, cur, lock, wgDone>>]_vars

\* a Set with a past expiry has been rejected while the cache holds two entries
C7_Witness ==
  /\ ret.op = "Set"
  /\ ret.err = ErrPastExpiry
  /\ EntryCount = 2
  /\ Len(queue) = 1

\* C8: a Set is rejected only for a cost of 0, a cost above the capacity or a
\* past expiry, never for lack of free space; when a Set returns success its
\* key is in the index with the value stored, unless it has expired since.
C8_RejectionDependsOnCapacityOnly ==
  [][ret'.op = "Set" =>
       IF ret'.err # "none"
       THEN \/ ret'.cost = 0
            \/ ret'.cost > Capacity
            \/ ret'.expires # ZeroTime /\ ret'.expires < now
       ELSE \/ ret'.expires # ZeroTime /\ ret'.expires < now
            \/ /\ cache'[ret'.k] # Nil
               /\ node'[cache'[ret'.k]].value = ret'.v]_vars

\* a Set as large as the capacity has succeeded after both keys had been set
C8_Witness ==
  /\ ret.op = "Set"
  /\ ret.err = "none"
  /\ ret.cost = Capacity
  /\ Capacity = 2
  /\ hist.everSet = FewKeys
  /\ EntryCount = 1
  /\ cache[ret.k] # Nil

\* the Get of caller p looks up an entry that is in the index and has expired
GetFindsExpired(p) ==
  /\ pc[p] = "get_lookup"
  /\ pc'[p] # "get_lookup"
  /\ cache[arg[p].k] # Nil
  /\ node[cache[arg[p].k]].expires # ZeroTime
  /\ node[cache[arg[p].k]].expires < now

\* C9: a Get of an entry whose expiry is set and in the past returns the zero
\* value and false, and leaves the entry in the index, in the list and in the size.
C9_ExpiredEntryIsNotFound ==
  [][\A p \in Callers : GetFindsExpired(p) =>
       /\ ret'.op = "Get"
       /\ ~ret'.found
       /\ ret'.value = emptyV
       /\ UNCHANGED <<cache, size, node, queue, cur>>]_vars

\* a Get has missed an expired entry that is still in the index and in the list
C9_Witness ==
  /\ ret.op = "Get"
  /\ ~ret.found
  /\ cache[ret.k] # Nil
  /\ node[cache[ret.k]].expires # ZeroTime
  /\ node[cache[ret.k]].expires < now
  /\ \E i \in 1..Len(List(node)) : List(node)[i] = cache[ret.k]
  /\ Size >= node[cache[ret.k]].size
  /\ EntryCount = 2

\* no call in progress, the channel empty and the processor idle
Quiescent ==
  /\ \A p \in Callers : ~InCall(p)
  /\ queue = <<>>
  /\ cur = NoEvent
  /\ spc = "wait"

\* the keys of the entries of the list, from head
ListKeys == [i \in 1..Len(List(node)) |-> node[List(node)[i]].key]

\* C10: under fair scheduling every Get, Set and Delete call eventually returns.
C10_EveryCallReturns == \A p \in Callers : InCall(p) ~> ~InCall(p)

\* the loop of MakeSpaceFor has taken the head sentinel for its victim
C10_Witness ==
  /\ cur.a = EventActionMakeSpaceFor
  /\ node[head].deleted
  /\ \A p \in Callers : InCall(p)

\* C11: after the callers' concurrent Sets of distinct keys with unit cost into
\* a cache of a capacity below their number, once every call has returned and
\* the channel is drained, the index holds exactly capacity keys, Size() is
\* the capacity and exactly capacity entries are linked between head and tail.
C11_ConcurrentSetsFillExactly ==
  (Quiescent /\ hist.everSet = {p - 1 : p \in Callers}) =>
    /\ EntryCount = Capacity
    /\ Size = Capacity
    /\ Len(List(node)) = Capacity
    /\ {ListKeys[i] : i \in 1..Len(ListKeys)} = {k \in Keys : cache[k] # Nil}

\* every caller's Set has returned, the first caller's entry has been evicted
\* and the touch of the last entry has been applied, on a buffered channel
C11_Witness ==
  /\ Quiescent
  /\ hist.everSet = {p - 1 : p \in Callers}
  /\ Len(List(node)) = Capacity
  /\ cache[0] = Nil
  /\ cfg.buffer = MaxBuffer

\* the first entries of the list are the keys of the batch of Get hits, the
\* latest first
GetsLeadList ==
  /\ Len(ListKeys) >= Len(hist.gets)
  /\ \A i \in 1..Len(hist.gets) : ListKeys[i] = hist.gets[i]

\* C12: on an unbuffered channel, whenever the caller is outside a call (so from
\* the moment a Get hit returns) the keys of its batch of Get hits are the first
\* entries of the list, the latest first, with no waiting.
C12_GetIsLinkedOnReturn ==
  (cfg.buffer = 0 /\ \A p \in Callers : ~InCall(p)) => GetsLeadList

\* a Get hit has returned on an unbuffered channel while the processor still
\* holds its touch, and another entry is first in the list
C12_Witness ==
  /\ cfg.buffer = 0
  /\ \A p \in Callers : ~InCall(p)
  /\ Len(hist.gets) = 1
  /\ cur.a = EventActionAddToFront
  /\ node[cur.n].key = hist.gets[1]
  /\ Len(ListKeys) = 2
  /\ ListKeys[2] = hist.gets[1]

\* C13: on a buffered channel, after a single caller's Get hits and once the
\* channel has drained, the keys of the batch are the first entries of the
\* list, the latest first.
C13_ListConvergesToCallOrder ==
  (cfg.buffer > 0 /\ Quiescent) => GetsLeadList

\* two Get hits of distinct keys have been applied, the second one moving the
\* entry that was last in the list
C13_Witness ==
  /\ cfg.buffer > 0
  /\ Quiescent
  /\ Len(hist.gets) = 2
  /\ ListKeys = hist.gets

\* C14: in every quiescent state the entries linked between head and tail are
\* the entries of the index, each once and under its own key, so the length of
\* the list is EntryCount().
C14_ListIsIndexWhenQuiescent ==
  Quiescent =>
    /\ {List(node)[i] : i \in 1..Len(List(node))} = IndexNodes
    /\ Len(List(node)) = EntryCount
    /\ \A k \in Keys : cache[k] # Nil => node[cache[k]].key = k

\* a quiescent state of the concurrent callers with two entries in the index
\* and in the list, on a buffered channel
C14_Witness ==
  /\ Quiescent
  /\ EntryCount = 2
  /\ Len(List(node)) = 2
  /\ cfg.buffer = 1
  /\ ListKeys = <<0, 1>>

\* the Set of caller p registers its entry in the index after a removal or an
\* eviction
Registers(p) ==
  /\ pc[p] \in {"set_wait_remove", "set_wait_space"}
  /\ pc'[p] = "set_send_touch"

\* the new entry of an overwrite fits in the space that is free once the old
\* entry is removed
OverwriteFits(cost) == hist.before.size - hist.before.old + cost <= Capacity

\* C15 as stated: a Set on a key already present leaves EntryCount() as it was
\* and Size() at the old size minus the old cost plus the new cost, whatever
\* the new cost, and stores the new value.
C15_OverwriteKeepsCount ==
  [][\A p \in Callers : (Registers(p) /\ hist.before.found) =>
       /\ EntryCount' = hist.before.count
       /\ Size' = hist.before.size - hist.before.old + node[arg[p].n].size
       /\ node'[cache'[arg[p].k]].value = node[arg[p].n].value]_vars

\* C15 amended: a Set on a key already present stores the new value; when the
\* new cost fits in the space that is free once the old entry is removed,
\* EntryCount() is as it was and Size() is the old size minus the old cost plus
\* the new cost; an entry is evicted or purged during an overwrite only when
\* the new cost does not fit, so never when it is not larger than the old one.
C15_OverwriteReplaces ==
  [][/\ \A p \in Callers : (Registers(p) /\ hist.before.found) =>
          /\ node'[cache'[arg[p].k]].value = node[arg[p].n].value
          /\ node'[cache'[arg[p].k]].size = node[arg[p].n].size
          /\ Size' <= Capacity
          /\ OverwriteFits(node[arg[p].n].size) =>
                /\ EntryCount' = hist.before.count
                /\ Size' = hist.before.size - hist.before.old + node[arg[p].n].size
     /\ (hist.before.found /\ cur.a \in {EventActionMakeSpaceFor, EventActionRemoveExpired}
           /\ \E k \in Keys : cache[k] # Nil /\ cache'[k] = Nil) =>
          /\ \E p \in Callers : pc[p] \in {"set_send_space", "set_wait_space"}
                                 /\ ~OverwriteFits(node[arg[p].n].size)
                                 /\ node[arg[p].n].size > hist.before.old]_vars

\* an overwrite with a new value has registered its entry next to another entry
\* that was there before
C15_Witness ==
  /\ pc[1] = "set_send_touch"
  /\ hist.before.found
  /\ hist.before.count = 2
  /\ EntryCount = 2
  /\ Size = 2
  /\ node[arg[1].n].value = 2

\* the entries of the index that had expired when the last RemoveExpired was handled
ExpiredAtPurge == {k \in Keys : cache[k] # Nil /\ Expired(node[cache[k]], hist.purged)}

\* C16: with the purge-on-full flag, a Set that finds too little free space has
\* RemoveExpired handled before the first eviction and before its entry is
\* registered, so that no entry that was expired at that scan is left; an entry
\* is evicted only if the space is still short after the purge.
C16_PurgeBeforeEviction ==
  [][cfg.purgeOnFull =>
       /\ Evicted # {} =>
             /\ hist.purged # ZeroTime
             /\ ExpiredAtPurge = {}
             /\ Capacity - Size < node[cur.n].size
       /\ \A p \in Callers : (pc[p] = "set_wait_space" /\ pc'[p] = "set_send_touch") =>
             /\ hist.purged # ZeroTime
             /\ ExpiredAtPurge = {}]_vars

\* the purge has removed an expired entry and made room for the new entry: the
\* loop of MakeSpaceFor finds the space sufficient and the entry that has not
\* expired stays
C16_Witness ==
  /\ cfg.purgeOnFull
  /\ cur.a = EventActionMakeSpaceFor
  /\ hist.purged # ZeroTime
  /\ hist.before.count = 2
  /\ ~hist.before.found
  /\ EntryCount = 1
  /\ ~LoopSpaceShort(cur.n)
  /\ Len(List(node)) = 1

\* the entry of key k is in the index and its expiry has passed
ExpiredEntry(k) == cache[k] # Nil /\ Expired(node[cache[k]], now)

\* C17: with a positive purge interval and the cache open, an entry whose
\* expiry has passed eventually leaves the index (and with it the list and
\* the size), with no caller starting a call for it.
C17_ExpiredEntryIsSwept ==
  \A k \in Keys :
    (cfg.interval > 0 /\ close.once = "new" /\ ExpiredEntry(k)) ~> ~ExpiredEntry(k)

\* an entry has expired while MakeSpaceFor spins on the head sentinel under the
\* write lock of a Set, the sweeper waiting for the lock
C17_Witness ==
  /\ \E k \in Keys : ExpiredEntry(k)
  /\ cur.a = EventActionMakeSpaceFor
  /\ node[head].deleted
  /\ spc = "wait"
  /\ lock.holder \in Callers

\* C18: a Close call made after the function of the Once has run returns at
\* once and changes nothing: it does not close the channel again, does not
\* signal the sweeper and does not panic.
C18_CloseIsIdempotent ==
  [][/\ fault' # "close of closed channel"
     /\ \A p \in Callers : (pc[p] = "close_do" /\ close.once = "done" /\ pc'[p] # "close_do") =>
          /\ pc'[p] = "idle"
          /\ ret'.op = "Close"
          /\ ret'.p = p
          /\ ~ret'.found
          /\ UNCHANGED <<cache, size, node, lock, queue, cur, wgDone, fault, close, spc>>]_vars

\* a second Close has returned after the first one had closed the channel and
\* stopped the sweeper
C18_Witness ==
  /\ ret.op = "Close"
  /\ ~ret.found
  /\ close.closed
  /\ close.once = "done"
  /\ spc = "exit"
  /\ fault = "none"

\* C19: a Delete of a key that is not in the index returns at once, sends no
\* event and leaves the index, the size and the list as they were; a Delete
\* takes the sending path only for a key that is in the index, and when any
\* Delete returns its key is not in the index, so that a second Delete of the
\* key is that no-op.
C19_DeleteOfAbsentKeyIsNoOp ==
  [][/\ \A p \in Callers :
          /\ (pc[p] = "idle" /\ ret'.op = "Delete" /\ ret'.p = p) =>
                /\ cache[ret'.k] = Nil
                /\ ~ret'.found
                /\ UNCHANGED <<cache, size, node, queue, cur, lock, wgDone>>
          /\ (pc[p] = "idle" /\ arg'[p].op = "Delete") => cache[arg'[p].k] # Nil
     /\ ret'.op = "Delete" => cache'[ret'.k] = Nil]_vars

\* a Delete has found nothing for a key that had been set earlier and whose
\* entry is gone, while the other key keeps its entry
C19_Witness ==
  /\ ret.op = "Delete"
  /\ ~ret.found
  /\ ret.k \in hist.everSet
  /\ hist.lastSet = NoSet
  /\ cache[ret.k] = Nil
  /\ EntryCount = 1

\* no entry flagged as deleted is in the index or linked in the list
TombstonesAreOut ==
  \A i \in NodeIds : node[i].deleted =>
    /\ i \notin IndexNodes
    /\ \A j \in 1..Len(List(node)) : List(node)[j] # i

\* C20: in every reachable state an entry flagged as deleted is neither in the
\* index nor linked in the list; a touch of such an entry, sent before or after
\* its removal and applied after it, leaves the list and the index as they are.
C20_TombstoneIsNeverRelinked ==
  [][/\ TombstonesAreOut'
     /\ (cur.a = EventActionAddToFront /\ node[cur.n].deleted /\ cur' = NoEvent) =>
          /\ ListKeys' = ListKeys
          /\ \A k \in Keys : (cache'[k] = Nil) = (cache[k] = Nil)
          /\ Size' = Size]_vars

\* the processor holds the touch of an entry that has been removed, while the
\* key of that entry has a new entry in the index and in the list
C20_Witness ==
  /\ cur.a = EventActionAddToFront
  /\ node[cur.n].deleted
  /\ cache[node[cur.n].key] # Nil
  /\ cache[node[cur.n].key] # cur.n
  /\ Len(List(node)) = 2
  /\ ListKeys[2] = node[cur.n].key

\* C21: whenever the body of the loop of MakeSpaceFor is about to run, the node
\* before the tail sentinel is an entry and not the head sentinel, and the
\* sentinels are never flagged as deleted.
C21_SentinelIsNeverEvicted ==
  /\ epc = "evict" => node[tail].previous \in NodeIds
  /\ ~node[head].deleted
  /\ ~node[tail].deleted

\* the body of the loop is about to run on an empty list while the entry of the
\* zero-value key is in the index with its touch not yet sent
C21_Witness ==
  /\ epc = "evict"
  /\ node[tail].previous = head
  /\ cache[emptyK] # Nil
  /\ \E p \in Callers : pc[p] = "set_send_touch" /\ arg[p].n = cache[emptyK]

\* C22: a Set that has registered its entry and has not yet sent the touch of
\* it still holds the write lock, so no other writer is in its critical
\* section at that time.
C22_TouchIsSentUnderLock ==
  \A p \in Callers : pc[p] = "set_send_touch" => lock.holder = p

\* an entry is registered with its touch not yet sent while another caller
\* holds the write lock and waits for an eviction
C22_Witness ==
  \E p, q \in Callers :
    /\ pc[p] = "set_send_touch"
    /\ cache[node[arg[p].n].key] = arg[p].n
    /\ lock.holder = q
    /\ q # p
    /\ pc[q] = "set_wait_space"

\* the events sent and not yet applied, in the order the processor takes them
Pending == (IF cur = NoEvent THEN <<>> ELSE <<cur>>) \o queue

\* the issuer of event e is at the wg.Wait() of that event
IssuerWaits(e) ==
  \/ /\ e.finished \in Callers
     /\ pc[e.finished] \in {"set_wait_remove", "set_wait_space", "del_wait_remove"}
  \/ /\ e.finished = Sweeper
     /\ spc = "await"

Writers ==
  {p \in Callers : pc[p] \in {"set_send_remove", "set_wait_remove", "set_send_purge",
                              "set_send_space", "set_wait_space",
                              "del_send_remove", "del_wait_remove"}}
    \cup (IF spc \in {"send", "await"} THEN {Sweeper} ELSE {})

\* C24: a Remove, MakeSpaceFor or RemoveExpired event is sent and applied only
\* while its issuer holds the write lock, at most one process is between Lock
\* and Unlock, and no assertion of the lock has failed.
C24_StructuralEventsRunUnderLock ==
  /\ fault = "none"
  /\ Cardinality(Writers) <= 1
  /\ \A w \in Writers : lock.holder = w /\ AssertLocked
  /\ lock.holder # 0 => lock.holder \in Writers
  /\ epc = "evict" => AssertLocked
  /\ \A i \in 1..Len(Pending) :
       Structural(Pending[i]) =>
         /\ AssertLocked
         /\ lock.holder \in Writers
         /\ Pending[i].finished # 0 => lock.holder = Pending[i].finished

\* the processor holds the RemoveExpired of the sweeper with an expired entry
\* to remove, while a Set has registered an entry and not yet sent its touch
C24_Witness ==
  /\ cur.a = EventActionRemoveExpired
  /\ cur.finished = Sweeper
  /\ ExpiredKeys # {}
  /\ lock.holder = Sweeper
  /\ \E p \in Callers : pc[p] = "set_send_touch"

\* C25: the processor applies the events in the order they were sent: the
\* events sent before a structural event are all ahead of the events sent
\* after it, none of them is left when the processor holds that structural
\* event, and none is left when a completion is signalled to a Set or Delete.
C25_EventsAreAppliedInOrder ==
  /\ \A i, j \in 1..Len(Pending) : i < j /\ Pending[j].old => Pending[i].old
  /\ Structural(cur) /\ ~cur.old => \A i \in 1..Len(queue) : ~queue[i].old
  /\ wgDone # {} => \A i \in 1..Len(Pending) : ~Pending[i].old

\* the processor holds a touch, and the channel holds a touch sent before the
\* Remove behind it
C25_Witness ==
  /\ cur.a = EventActionAddToFront
  /\ cur.old
  /\ Len(queue) = 2
  /\ queue[1].a = EventActionAddToFront
  /\ queue[1].old
  /\ queue[2].a = EventActionRemove
  /\ ~queue[2].old

\* Get never takes the write lock, has released the read lock when it sends
\* the touch, and its lookup and its send into a channel with room never wait
GetWaitsNowhereElse(p) ==
  /\ pc[p] \in {"get_lookup", "get_send_touch"} => lock.holder # p /\ lock.pending # p
  /\ pc[p] = "get_lookup" => p \in lock.readers /\ ENABLED GetLookup(p)
  /\ pc[p] = "get_send_touch" => p \notin lock.readers
  /\ pc[p] = "get_send_touch" /\ CanSend => ENABLED GetSendTouch(p)

\* C26: a caller that is not in a call can always start Get and take the read
\* lock at once, and the only step of Get that can wait is the send of the
\* touch into a channel without room.
C26_GetBlocksOnlyAtEnqueue ==
  Running =>
    \A p \in Callers :
      /\ pc[p] = "idle" => ENABLED Get(p, emptyK)
      /\ GetWaitsNowhereElse(p)

\* C26, amended: Get waits at RLock exactly while a writer holds the write lock
\* or has started Lock(), and otherwise only at the send of the touch into a
\* channel without room.
C26_GetBlocksAtRLockAndEnqueue ==
  Running =>
    \A p \in Callers :
      /\ pc[p] = "idle" => (ENABLED Get(p, emptyK) <=> NoWriter)
      /\ GetWaitsNowhereElse(p)

\* one Get waits at the send of its touch, the read lock released, while the
\* other caller cannot start a Get because the sweeper holds the write lock
C26_Witness ==
  \E p, q \in Callers :
    /\ pc[p] = "get_send_touch"
    /\ ~CanSend
    /\ p \notin lock.readers
    /\ pc[q] = "idle"
    /\ lock.holder = Sweeper
    /\ ~ENABLED Get(q, emptyK)

\* the entries of the index that are not in the list
Unlinked == IndexNodes \ {List(node)[i] : i \in 1..Len(List(node))}

WellFormed(nd) ==
  LET L == List(nd)
  IN /\ nd[head].previous = Nil
     /\ nd[tail].next = Nil
     /\ Cardinality({L[i] : i \in 1..Len(L)}) = Len(L)
     /\ IF L = <<>>
        THEN nd[head].next = tail /\ nd[tail].previous = head
        ELSE /\ nd[head].next = L[1]
             /\ nd[L[1]].previous = head
             /\ nd[L[Len(L)]].next = tail
             /\ nd[tail].previous = L[Len(L)]
     /\ \A i \in 1..(Len(L) - 1) : nd[L[i]].next = L[i + 1] /\ nd[L[i + 1]].previous = L[i]
     /\ \A n \in NodeIds :
          nd[n].previous # Nil \/ nd[n].next # Nil => \E i \in 1..Len(L) : L[i] = n

\* C28: in every reachable state the recency list is a well-formed ring.
C28_ListIsWellFormed == WellFormed(node)

\* the processor has removed the last entry of the list for a Delete that has
\* not yet returned: the sentinels point at each other again
C28_Witness ==
  \E p \in Callers :
    /\ pc[p] = "del_wait_remove"
    /\ p \in wgDone
    /\ node[arg[p].n].deleted
    /\ node[head].next = tail
    /\ node[tail].previous = head

\* what the index stores under every key
IndexEntries ==
  [k \in Keys |->
     IF cache[k] = Nil THEN <<>>
     ELSE <<node[cache[k]].value, node[cache[k]].size, node[cache[k]].expires>>]

\* the processor applies the touch it holds
TouchApplied == cur.a = EventActionAddToFront /\ cur' = NoEvent

\* the entry of the touch is first after head, the others keep their order
MovedToFront ==
  ListKeys' = <<node[cur.n].key>> \o Without(ListKeys, {node[cur.n].key})

\* the index, the stored values, the size and the entry count stay as they are
IndexKept == IndexEntries' = IndexEntries /\ Size' = Size /\ EntryCount' = EntryCount

\* caller p takes a step of a Get
GetStep(p) ==
  /\ pc'[p] # pc[p]
  /\ pc[p] \in {"get_lookup", "get_send_touch"} \/ pc'[p] = "get_lookup"

\* C29: the steps of a Get leave the list, the index, the values and the size
\* as they are, and the application of a touch puts its entry first after
\* head, keeps the order of the other entries and leaves the index, the
\* values, the size and the entry count as they are.
C29_GetHitMovesEntryFirst ==
  [][/\ \A p \in Callers : GetStep(p) => ListKeys' = ListKeys /\ IndexKept
     /\ TouchApplied => MovedToFront /\ IndexKept]_vars

\* C29, amended: as C29, but the touch of an entry that has been removed since
\* the lookup changes nothing.
C29_GetHitMovesLiveEntryFirst ==
  [][/\ \A p \in Callers : GetStep(p) => ListKeys' = ListKeys /\ IndexKept
     /\ TouchApplied =>
          /\ IndexKept
          /\ IF node[cur.n].deleted THEN ListKeys' = ListKeys ELSE MovedToFront]_vars

\* the processor holds the touch of the entry that is last of two in the list
C29_Witness ==
  /\ cur.a = EventActionAddToFront
  /\ ~node[cur.n].deleted
  /\ Len(ListKeys) = 2
  /\ ListKeys[2] = node[cur.n].key
  /\ node[cache[ListKeys[1]]].value # node[cur.n].value

\* the entry Get looks up is absent or has expired
GetMisses(p) ==
  \/ cache[arg[p].k] = Nil
  \/ Expired(node[cache[arg[p].k]], now)

PurgeApplied == cur.a = EventActionRemoveExpired /\ cur' = NoEvent

\* the keys whose entry has an expiry that is set and in the past
PastExpiry ==
  {k \in Keys : cache[k] # Nil /\ node[cache[k]].expires # ZeroTime
                              /\ node[cache[k]].expires < now}

\* C31: the application of a RemoveExpired event takes out of the index and
\* out of the list exactly the entries whose expiry is set and in the past,
\* subtracts their costs, and leaves every other entry in the index, with its
\* value, and in the list, in the same order.
C31_PurgeRemovesExactlyExpired ==
  [][PurgeApplied =>
       /\ \A k \in PastExpiry : cache'[k] = Nil
       /\ \A k \in Keys \ PastExpiry : IndexEntries'[k] = IndexEntries[k]
       /\ ListKeys' = Without(ListKeys, PastExpiry)
       /\ Size' = Size - SumSize(node, {cache[k] : k \in PastExpiry})]_vars

\* the processor holds the RemoveExpired of the sweeper while the list holds an
\* expired entry first and an entry without expiry behind it
C31_Witness ==
  /\ cur.a = EventActionRemoveExpired
  /\ cur.finished = Sweeper
  /\ Len(ListKeys) = 2
  /\ ListKeys[1] \in PastExpiry
  /\ cache[ListKeys[2]] # Nil
  /\ node[cache[ListKeys[2]]].expires = ZeroTime

\* With a positive interval the sweeper has left its loop before the channel
\* is closed: once the channel is closed or Close has returned it is at no
\* send, has no event pending and neither holds nor awaits the write lock.
SweeperHasStopped ==
  cfg.interval > 0 /\ (close.closed \/ close.once = "done") =>
    /\ spc = "exit"
    /\ lock.holder # Sweeper
    /\ lock.pending # Sweeper
    /\ \A i \in 1..Len(Pending) : Pending[i].finished # Sweeper

\* C32: with a positive purge interval the sweeper has exited before the
\* channel is closed, never sends on the closed channel, holds no write lock
\* once Close has returned, and every call of Close eventually returns.
C32_CloseStopsSweeper ==
  /\ []SweeperHasStopped
  /\ \A p \in Callers : (pc[p] \in ClosePcs) ~> (pc[p] = "idle")

\* Close waits with its stop signal while the sweeper holds the write lock and
\* waits for its RemoveExpired event
C32_Witness ==
  \E p \in Callers :
    /\ pc[p] = "close_send_done"
    /\ spc = "await"
    /\ lock.holder = Sweeper
    /\ ~close.closed

\* the entry of key k is in the index and not in the list
UnlinkedKey(k) == cache[k] # Nil /\ cache[k] \in Unlinked

\* the touch of node n is in the channel or held by the processor, or the Set
\* that registered n is about to send it
TouchOnItsWay(n) ==
  \/ \E i \in 1..Len(Pending) : Pending[i].a = EventActionAddToFront /\ Pending[i].n = n
  \/ \E p \in Callers : pc[p] = "set_send_touch" /\ arg[p].n = n

\* C33: every entry in the index that is not in the list has a touch pending
\* or about to be sent by its Set, and under fair scheduling it does not stay
\* so: it is eventually linked or taken out of the index.
C33_UnlinkedEntryIsEventuallyLinked ==
  /\ [](\A n \in Unlinked : TouchOnItsWay(n))
  /\ \A k \in Keys : UnlinkedKey(k) ~> ~UnlinkedKey(k)

\* an entry other than that of the zero-value key is in the index and not in
\* the list, its Set still about to send the touch, while the loop of
\* MakeSpaceFor runs on the empty list
C33_Witness ==
  /\ epc = "evict"
  /\ node[tail].previous = head
  /\ \E k \in Keys \ {emptyK} : UnlinkedKey(k)
  /\ \E p \in Callers : pc[p] = "set_send_touch" /\ arg[p].n # cache[emptyK]

====
